---- MODULE Spec2Model ----
(***************************************************************************)
(* The two ETL pipelines of "03 Python Project for Data Engineering":      *)
(*   banks_project.py    - module-level script, no exception handling      *)
(*   etl_project_gdp.py  - main() wrapping all stages in try/except        *)
(*                                                                         *)
(* Data representation                                                     *)
(*   a text is a sequence of one-character strings;                        *)
(*   a cell is a record [k, s, v]: k = "str" (text s), k = "num" (a float, *)
(*   v in hundredths), k = "nan" (pandas NaN / missing);                   *)
(*   a DataFrame is [cols |-> <<names>>, rows |-> <<row, ...>>], a row a   *)
(*   sequence of cells.                                                    *)
(* Floats are exact decimals in hundredths; rounding is round-half-even as *)
(* numpy's round.  Log timestamps are left out: the order of the log is    *)
(* the order of the appends.                                               *)
(***************************************************************************)
EXTENDS Integers, Sequences, FiniteSets, TLC

\* Largest number of rows of an extracted table.
MaxRows == 2

\* Largest number of runs of a script against one database file (SpecLoad).
MaxRuns == 2

(***************************************************************************)
(* Cells and texts                                                         *)
(***************************************************************************)
Str(chars) == [k |-> "str", s |-> chars, v |-> 0]

Num(n) == [k |-> "num", s |-> <<>>, v |-> n]

NaN == [k |-> "nan", s |-> <<>>, v |-> 0]

IsNum(c) == c.k = "num"

IsNaN(c) == c.k = "nan"

IsStr(c) == c.k = "str"

\* The one character U+2014 (em-dash).
EmDash == "u2014"

DigitChars == <<"0", "1", "2", "3", "4", "5", "6", "7", "8", "9">>

IsDigit(ch) == \E i \in 1..10 : DigitChars[i] = ch

DigitVal(ch) == (CHOOSE i \in 1..10 : DigitChars[i] = ch) - 1

\* str.lower() on one character (the letters the inputs use).
LowerChar(ch) ==
    CASE ch = "W" -> "w"
      [] ch = "B" -> "b"
      [] ch = "A" -> "a"
      [] ch = "C" -> "c"
      [] OTHER -> ch

\* Series.str.lower() on one text.
Lower(chars) == [i \in 1..Len(chars) |-> LowerChar(chars[i])]

\* rows[mask]: the rows a boolean mask selects, in order.
Take(rows, mask) ==
    LET F[i \in 0..Len(rows)] ==
            IF i = 0 THEN <<>>
            ELSE IF mask[i] THEN Append(F[i - 1], rows[i]) ELSE F[i - 1]
    IN F[Len(rows)]

(***************************************************************************)
(* Numeric cleaning                                                        *)
(***************************************************************************)
\* Index of the first "]" at or after position i of chars, 0 when there is none.
FirstClose(chars, i) ==
    IF \E j \in i..Len(chars) : chars[j] = "]"
    THEN CHOOSE j \in i..Len(chars) :
             /\ chars[j] = "]"
             /\ \A m \in i..(j - 1) : chars[m] # "]"
    ELSE 0

\* re.sub(r'\[.*?\]|,|<em-dash>', '', text): the leftmost non-overlapping matches are
\* removed; a "[" with no "]" after it matches nothing and stays.
RECURSIVE StripFrom(_, _)
StripFrom(chars, i) ==
    IF i > Len(chars) THEN <<>>
    ELSE IF chars[i] = "[" /\ FirstClose(chars, i + 1) # 0
         THEN StripFrom(chars, FirstClose(chars, i + 1) + 1)
    ELSE IF chars[i] \in {",", EmDash} THEN StripFrom(chars, i + 1)
    ELSE <<chars[i]>> \o StripFrom(chars, i + 1)

\* Series.replace(to_replace=r'\[.*?\]|,|<em-dash>', value='', regex=True) on one cell:
\* only text cells are rewritten.
StripNoise(c) == IF IsStr(c) THEN Str(StripFrom(c.s, 1)) ELSE c

\* Value of a text of digits.
RECURSIVE DigitsValue(_)
DigitsValue(chars) ==
    IF chars = <<>> THEN 0
    ELSE 10 * DigitsValue(SubSeq(chars, 1, Len(chars) - 1)) + DigitVal(chars[Len(chars)])

AllDigits(chars) == \A i \in 1..Len(chars) : IsDigit(chars[i])

\* A text the float parser accepts: digits with at most one "." and at least
\* one digit (texts of the inputs hold no sign, exponent or blank).
IsNumeric(chars) ==
    \/ chars # <<>> /\ AllDigits(chars)
    \/ \E d \in 1..Len(chars) :
          /\ chars[d] = "."
          /\ AllDigits(SubSeq(chars, 1, d - 1))
          /\ AllDigits(SubSeq(chars, d + 1, Len(chars)))
          /\ Len(chars) > 1

\* The float a numeric text denotes, in hundredths (digits after the second
\* decimal place are below the model's resolution).
ParseFloat(chars) ==
    IF AllDigits(chars) THEN 100 * DigitsValue(chars)
    ELSE LET d == CHOOSE d \in 1..Len(chars) : chars[d] = "."
             int == SubSeq(chars, 1, d - 1)
             frac == SubSeq(chars, d + 1, Len(chars))
             f2 == SubSeq(frac \o <<"0", "0">>, 1, 2)
         IN 100 * DigitsValue(int) + DigitsValue(f2)

\* Faulty variant of to_numeric: errors='ignore', a text that does not parse
\* is returned as it is.
to_numeric_ignore(c, errors) ==
    IF ~IsStr(c) THEN c
    ELSE IF IsNumeric(c.s) THEN Num(ParseFloat(c.s))
    ELSE c

\* pd.to_numeric(..., errors=...) on one cell.  errors='coerce' turns a text
\* that does not parse into NaN; errors='raise' raises (cell "raise").
to_numeric(c, errors) ==
    IF ~IsStr(c) THEN c
    ELSE IF IsNumeric(c.s) THEN Num(ParseFloat(c.s))
    ELSE IF errors = "coerce" THEN NaN
    ELSE [k |-> "raise", s |-> c.s, v |-> 0]

\* round(x / d) to the nearest integer, ties to even (x >= 0, d > 0).
RoundDiv(x, d) ==
    LET q == x \div d
        r == x % d
    IN IF 2 * r < d THEN q
       ELSE IF 2 * r > d THEN q + 1
       ELSE IF q % 2 = 0 THEN q ELSE q + 1

(***************************************************************************)
(* DataFrames                                                              *)
(***************************************************************************)
NoFrame == [cols |-> <<>>, rows |-> <<>>]

NCols(df) == Len(df.cols)

ColIdx(df, name) == CHOOSE i \in 1..Len(df.cols) : df.cols[i] = name

\* df.iloc[:, [0, 2]]: the columns at the given (one-based) positions.
iloc(df, idxs) ==
    [cols |-> [j \in 1..Len(idxs) |-> df.cols[idxs[j]]],
     rows |-> [n \in 1..Len(df.rows) |-> [j \in 1..Len(idxs) |-> df.rows[n][idxs[j]]]]]

\* df.columns = names
set_columns(df, names) == [df EXCEPT !.cols = names]

\* df[name] = values: the column replaced by a sequence of cells.
set_column(df, name, values) ==
    LET i == ColIdx(df, name)
    IN [df EXCEPT !.rows = [n \in 1..Len(df.rows) |-> [df.rows[n] EXCEPT ![i] = values[n]]]]

\* df[name]: the cells of a column.
column(df, name) ==
    LET i == ColIdx(df, name)
    IN [n \in 1..Len(df.rows) |-> df.rows[n][i]]

\* df.dropna(subset=[name]): the rows whose cell is not NaN, in order.
dropna(df, name) ==
    [df EXCEPT !.rows = Take(df.rows, [n \in 1..Len(df.rows) |-> ~IsNaN(column(df, name)[n])])]

\* df[new] = values: a column appended to every row.
add_column(df, new, values) ==
    [cols |-> Append(df.cols, new),
     rows |-> [n \in 1..Len(df.rows) |-> Append(df.rows[n], values[n])]]

\* df[[names]]
select(df, names) ==
    iloc(df, [j \in 1..Len(names) |-> ColIdx(df, names[j])])

\* pd.to_numeric(df[name], errors=...): the column, cell by cell.
to_numeric_column(df, name, errors) ==
    [n \in 1..Len(df.rows) |-> to_numeric(column(df, name)[n], errors)]

\* df[name].replace(to_replace=<noise>, value='', regex=True)
replace_column(df, name) ==
    [n \in 1..Len(df.rows) |-> StripNoise(column(df, name)[n])]

\* Whether the column holds a cell on which to_numeric raised.
Raised(df, name) ==
    \E n \in 1..Len(df.rows) : column(df, name)[n].k = "raise"

(***************************************************************************)
(* etl_project_gdp.py: transform_data                                      *)
(***************************************************************************)
W_world == <<"w", "o", "r", "l", "d">>

\* The list given to isin(): ['world', '<em-dash>'].
ExclusionSet == {W_world, <<EmDash>>}

\* Faulty variant of FilterCountry: the comparison without .str.lower().
FilterCountry_case_sensitive(df) ==
    LET c == column(df, "Country")
    IN [df EXCEPT !.rows =
            Take(df.rows, [n \in 1..Len(df.rows) |-> ~(IsStr(c[n]) /\ c[n].s \in ExclusionSet)])]

\* df[~df['Country'].str.lower().isin(['world', '<em-dash>'])]
\* (.str.lower() of a cell that is no text is NaN, which isin() does not match)
FilterCountry(df) ==
    LET c == column(df, "Country")
    IN [df EXCEPT !.rows =
            Take(df.rows,
                 [n \in 1..Len(df.rows) |-> ~(IsStr(c[n]) /\ Lower(c[n].s) \in ExclusionSet)])]

\* (df['GDP_USD_million'] / 1000).round(2) on one cell, in hundredths.
ToBillion(c) == IF IsNum(c) THEN Num(RoundDiv(c.v, 1000)) ELSE c

(***************************************************************************)
(* banks_project.py: extract (lines 44-47), line 109, transform            *)
(***************************************************************************)
ATTRIBUTES == <<"Name", "MC_USD_Billion">>

CurrencyOrder == <<"GBP", "EUR", "INR">>

DerivedName(cur) ==
    CASE cur = "GBP" -> "MC_GBP_Billion"
      [] cur = "EUR" -> "MC_EUR_Billion"
      [] cur = "INR" -> "MC_INR_Billion"

\* (df['MC_USD_Billion'] * rate).round(2) on one cell; NaN stays NaN.
Scale(c, rate) == IF IsNum(c) THEN Num(RoundDiv(c.v * rate, 100)) ELSE c

\* rates['GBP'], rates['EUR'], rates['INR']: KeyError at the first missing key.
transform_raises(rates) == \E i \in 1..3 : CurrencyOrder[i] \notin DOMAIN rates

\* Lines 61-63 from the i-th on: the frame is changed in place, one derived
\* column per line, until a line raises KeyError.
RECURSIVE transform_from(_, _, _)
transform_from(frame, rates, i) ==
    IF i > 3 \/ CurrencyOrder[i] \notin DOMAIN rates THEN frame
    ELSE LET usd == column(frame, "MC_USD_Billion")
             derived == [n \in 1..Len(usd) |-> Scale(usd[n], rates[CurrencyOrder[i]])]
         IN transform_from(add_column(frame, DerivedName(CurrencyOrder[i]), derived),
                           rates, i + 1)

transform(frame, rates) == transform_from(frame, rates, 1)

(***************************************************************************)
(* Sinks                                                                   *)
(***************************************************************************)
\* The decimal digits of a natural number.
RECURSIVE IntChars(_)
IntChars(n) ==
    IF n < 10 THEN <<DigitChars[n + 1]>>
    ELSE Append(IntChars(n \div 10), DigitChars[(n % 10) + 1])

\* The text to_csv writes for a float (its shortest repr): 12.3, 12.0, 0.05.
FormatFloat(v) ==
    LET frac == v % 100
    IN IntChars(v \div 100) \o <<".">> \o
       (IF frac % 10 = 0 THEN <<DigitChars[(frac \div 10) + 1]>>
        ELSE <<DigitChars[(frac \div 10) + 1], DigitChars[(frac % 10) + 1]>>)

\* One field of a CSV line: NaN is written as the empty text.
CsvField(c) ==
    IF IsNum(c) THEN FormatFloat(c.v)
    ELSE IF IsStr(c) THEN c.s
    ELSE <<>>

NoFile == [exists |-> FALSE, header |-> <<>>, lines |-> <<>>]

\* df.to_csv(path, index=False): the file is overwritten with a header line and
\* one line per row.
to_csv(df) ==
    [exists |-> TRUE,
     header |-> df.cols,
     lines |-> [n \in 1..Len(df.rows) |->
                   [j \in 1..Len(df.rows[n]) |-> CsvField(df.rows[n][j])]]]

\* The value sqlite stores for a cell: NaN becomes NULL.
SqlNull == [k |-> "null", s |-> <<>>, v |-> 0]

SqlValue(c) == IF IsNaN(c) THEN SqlNull ELSE c

NoTable == [exists |-> FALSE, cols |-> <<>>, rows |-> <<>>]

SqlRows(df) ==
    [n \in 1..Len(df.rows) |-> [j \in 1..Len(df.rows[n]) |-> SqlValue(df.rows[n][j])]]

\* Faulty variant of to_sql_replace: if_exists='append'.
to_sql_replace_keeps_rows(table, df) ==
    [exists |-> TRUE, cols |-> df.cols, rows |-> table.rows \o SqlRows(df)]

\* df.to_sql(name, conn, if_exists='replace', index=False)
to_sql_replace(table, df) ==
    [exists |-> TRUE, cols |-> df.cols, rows |-> SqlRows(df)]

\* df.to_sql(name, conn, if_exists='append', index=False)
to_sql_append(table, df) ==
    IF table.exists THEN [table EXCEPT !.rows = table.rows \o SqlRows(df)]
    ELSE [exists |-> TRUE, cols |-> df.cols, rows |-> SqlRows(df)]

\* DROP TABLE IF EXISTS Countries_by_GDP
drop_table(table) == NoTable

\* CREATE TABLE Countries_by_GDP (Country TEXT, GDP_USD_billion REAL)
create_table(table) ==
    [exists |-> TRUE, cols |-> <<"Country", "GDP_USD_billion">>, rows |-> <<>>]

\* SELECT * FROM Countries_by_GDP WHERE GDP_USD_billion > 100
QueryOver100(table) ==
    Take(table.rows,
         [n \in 1..Len(table.rows) |-> IsNum(table.rows[n][2]) /\ table.rows[n][2].v > 100 * 100])

(***************************************************************************)
(* Inputs: what the web page, the exchange-rate file and the storage give  *)
(***************************************************************************)
T_BankA == <<"B", "a", "n", "k", " ", "A">>

T_BankB == <<"B", "a", "n", "k", " ", "B">>

T_World == <<"W", "o", "r", "l", "d">>

T_PaddedWorld == <<" ", "W", "o", "r", "l", "d", " ">>

\* Cells of the numeric column: a decimal text, the em-dash placeholder, text
\* that is no number, a number with thousands separators and a footnote
\* marker, a float read_html already parsed, and an empty cell (NaN).
NumCells ==
    { Str(<<"1", "2", ".", "3">>),
      Str(<<EmDash>>),
      Str(<<"x">>),
      Str(<<"2", "3", "4", ",", "5", "6", "7", "[", "a", "]">>),
      Num(50000),
      NaN }

\* The two rows of the scenario of spec section 8.
ScenarioRows ==
    << <<Str(T_BankA), Str(<<EmDash>>), Str(<<"1", "2", ".", "3">>)>>,
       <<Str(T_BankB), Str(<<"x">>), Str(<<EmDash>>)>> >>

RowsOver(names) ==
    {ScenarioRows[1], ScenarioRows[2]}
        \cup {<<Str(n), Str(<<"x">>), c>> : n \in names, c \in NumCells}

SeqsUpTo(S, n) == UNION {[1..m -> S] : m \in 0..n}

RawCols == <<"c0", "c1", "c2">>

\* A table with fewer than three columns (iloc[:, [0, 2]] raises IndexError).
NarrowTable ==
    [cols |-> <<"c0", "c1">>, rows |-> << <<Str(T_BankA), Str(<<"1", "2", ".", "3">>)>> >>]

TablesOver(names) ==
    {[cols |-> RawCols, rows |-> r] : r \in SeqsUpTo(RowsOver(names), MaxRows)}
        \cup {NarrowTable}

\* Tables read_html returns (it strips the blanks around every cell text).
RawTables == TablesOver({T_BankA, T_World})

\* Frames transform_data may be called with.
FnTables == TablesOver({T_BankA, T_World, T_PaddedWorld, <<EmDash>>})

\* dict(zip(rates_df['Currency'], rates_df['Rate'])), rates in hundredths: the
\* course's file, and a file without the INR line.
RateTables ==
    { [cur \in {"GBP", "EUR", "INR"} |->
          CASE cur = "GBP" -> 80 [] cur = "EUR" -> 93 [] cur = "INR" -> 8295],
      [cur \in {"GBP", "EUR"} |-> CASE cur = "GBP" -> 80 [] cur = "EUR" -> 93] }

(***************************************************************************)
(* State                                                                   *)
(***************************************************************************)
VARIABLES
    variant,         \* "banks" (banks_project.py) or "gdp" (etl_project_gdp.py)
    pc,              \* position of the process in the script
    df_raw,          \* the frame read_html returned
    df,              \* the frame the running function works on (banks:
                     \* df_extracted, changed in place by transform)
    df_transformed,  \* the frame the transform stage returned
    log,             \* code_log.txt / etl_project_log.txt, lines appended
    csv,             \* the CSV output file
    db,              \* the table of the SQLite database file
    conn,            \* the connection: "none", "open", "closed"
    err,             \* the exception raised: the stage it was raised in, its
                     \* message, and the time (as Progress) of the raise
    runs,            \* number of runs of the script so far, this one included
    db_before        \* history: the table as the run's connection found it

vars == <<variant, pc, df_raw, df, df_transformed, log, csv, db, conn, err, runs, db_before>>

NoErr == [stage |-> "none", kind |-> "none", at |-> 0]

\* The pipeline state (spec section 4.7) a position belongs to.
Stage(p) ==
    CASE p \in {"b_start", "g_start"} -> "Idle"
      [] p \in {"b_extract", "b_project", "b_dropna", "b_to_numeric",
                "g_extract", "g_fetch", "g_read_html"} -> "Extracting"
      [] p \in {"b_coerce", "b_transform", "g_transform", "g_project", "g_filter",
                "g_replace", "g_to_numeric", "g_dropna", "g_derive"} -> "Transforming"
      [] p \in {"b_load_csv", "g_load_csv", "g_to_csv"} -> "LoadingCsv"
      [] p \in {"b_connect", "b_load_db", "g_load_db", "g_connect", "g_drop",
                "g_create", "g_to_sql"} -> "LoadingDb"
      [] p \in {"b_query1", "b_query2", "b_query3", "b_close",
                "g_query", "g_execute", "g_close", "g_log_done"} -> "Querying"
      [] p \in {"b_done", "g_done"} -> "Done"
      [] OTHER -> "Failed"

StageRank(st) ==
    CASE st = "Idle" -> 0
      [] st = "Extracting" -> 1
      [] st = "Transforming" -> 2
      [] st = "LoadingCsv" -> 3
      [] st = "LoadingDb" -> 4
      [] st = "Querying" -> 5
      [] st = "Done" -> 6
      [] OTHER -> 7

\* Number of stages whose work is complete when the process is at p: the time
\* of a log line, in units of finished stages.  In the GDP script the last
\* statement of a stage's work is at g_read_html, g_derive, g_to_csv, g_to_sql,
\* g_execute.
Progress(p) ==
    CASE Stage(p) = "Idle" \/ p = "g_read_html" -> 0
      [] p \in {"g_to_csv"} -> 2
      [] p \in {"b_close", "g_close", "g_log_done"} -> 5
      [] Stage(p) = "Done" -> 5
      [] OTHER -> StageRank(Stage(p)) - 1

\* One line of the log: the timestamp (as Progress), the message and its
\* formatted arguments.
Entry(msg, detail, n, at) == [msg |-> msg, detail |-> detail, n |-> n, at |-> at]

\* log_progress(message) / log_step(message), written when the process is
\* about to be at position p.
Logged(msg, p) == Append(log, Entry(msg, "", 0, Progress(p)))

\* An uncaught exception at module level: the interpreter prints the
\* traceback and exits; nothing is written to the log.
Crash(kind) ==
    /\ pc' = "b_crashed"
    /\ err' = [stage |-> Stage(pc), kind |-> kind, at |-> Progress(pc)]

\* An exception inside main()'s try block: control moves to the except clause.
Raise(kind) ==
    /\ pc' = "g_except"
    /\ err' = [stage |-> Stage(pc), kind |-> kind, at |-> Progress(pc)]

Init ==
    /\ variant \in {"banks", "gdp"}
    /\ pc = IF variant = "banks" THEN "b_start" ELSE "g_start"
    /\ df_raw = NoFrame
    /\ df = NoFrame
    /\ df_transformed = NoFrame
    /\ log = <<>>
    /\ csv = NoFile
    /\ db = NoTable
    /\ conn = "none"
    /\ err = NoErr
    /\ runs = 1
    /\ db_before = NoTable

(***************************************************************************)
(* banks_project.py                                                        *)
(***************************************************************************)
\* line 107
Banks_start ==
    /\ pc = "b_start"
    /\ log' = Logged("Preliminaries complete. Initiating ETL process", "b_extract")
    /\ pc' = "b_extract"
    /\ UNCHANGED <<variant, df_raw, df, df_transformed, csv, db, conn, err, runs, db_before>>

\* extract, lines 27-41: requests.get raises, the heading or the table is
\* missing, or read_html finds no table.
Banks_extract_fail ==
    /\ pc = "b_extract"
    /\ \E kind \in {"ConnectionError",
                    "Heading with ID 'By_market_capitalization' not found",
                    "Target table not found after heading",
                    "ValueError: No tables found"} : Crash(kind)
    /\ UNCHANGED <<variant, df_raw, df, df_transformed, log, csv, db, conn, runs, db_before>>

\* extract, lines 27-41: the table after the heading is read.
Banks_extract_read ==
    /\ pc = "b_extract"
    /\ \E t \in RawTables : df_raw' = t /\ df' = t
    /\ pc' = "b_project"
    /\ UNCHANGED <<variant, df_transformed, log, csv, db, conn, err, runs, db_before>>

\* extract, lines 44-45
Banks_project ==
    /\ pc = "b_project"
    /\ IF NCols(df) < 3
       THEN Crash("IndexError") /\ UNCHANGED df
       ELSE /\ df' = set_columns(iloc(df, <<1, 3>>), ATTRIBUTES)
            /\ pc' = "b_dropna"
            /\ UNCHANGED err
    /\ UNCHANGED <<variant, df_raw, df_transformed, log, csv, db, conn, runs, db_before>>

\* extract, line 46
Banks_dropna ==
    /\ pc = "b_dropna"
    /\ df' = dropna(df, "MC_USD_Billion")
    /\ pc' = "b_to_numeric"
    /\ UNCHANGED <<variant, df_raw, df_transformed, log, csv, db, conn, err, runs, db_before>>

\* extract, lines 47-50
Banks_to_numeric ==
    /\ pc = "b_to_numeric"
    /\ LET n == set_column(df, "MC_USD_Billion", to_numeric_column(df, "MC_USD_Billion", "coerce"))
       IN IF Raised(n, "MC_USD_Billion")
          THEN Crash("ValueError: Unable to parse string") /\ UNCHANGED <<df, log>>
          ELSE /\ df' = n
               /\ log' = Logged("Data extraction complete. Initiating Transformation process",
                                "b_coerce")
               /\ pc' = "b_coerce"
               /\ UNCHANGED err
    /\ UNCHANGED <<variant, df_raw, df_transformed, csv, db, conn, runs, db_before>>

\* line 109
Banks_coerce ==
    /\ pc = "b_coerce"
    /\ LET n == set_column(df, "MC_USD_Billion", to_numeric_column(df, "MC_USD_Billion", "coerce"))
       IN IF Raised(n, "MC_USD_Billion")
          THEN Crash("ValueError: Unable to parse string") /\ UNCHANGED df
          ELSE df' = n /\ pc' = "b_transform" /\ UNCHANGED err
    /\ UNCHANGED <<variant, df_raw, df_transformed, log, csv, db, conn, runs, db_before>>

\* transform, line 58: read_csv cannot fetch the exchange-rate file.
Banks_transform_fail ==
    /\ pc = "b_transform"
    /\ Crash("URLError")
    /\ UNCHANGED <<variant, df_raw, df, df_transformed, log, csv, db, conn, runs, db_before>>

\* transform, lines 58-66 (line 110 binds the returned frame, the same object)
Banks_transform ==
    /\ pc = "b_transform"
    /\ \E rates \in RateTables :
          /\ df' = transform(df, rates)
          /\ IF transform_raises(rates)
             THEN Crash("KeyError") /\ UNCHANGED <<df_transformed, log>>
             ELSE /\ df_transformed' = transform(df, rates)
                  /\ log' = Logged("Data transformation complete. Initiating Loading process",
                                   "b_load_csv")
                  /\ pc' = "b_load_csv"
                  /\ UNCHANGED err
    /\ UNCHANGED <<variant, df_raw, csv, db, conn, runs, db_before>>

\* load_to_csv, lines 73-74
Banks_load_to_csv ==
    /\ pc = "b_load_csv"
    /\ csv' = to_csv(df_transformed)
    /\ log' = Logged("Data saved to CSV file", "b_connect")
    /\ pc' = "b_connect"
    /\ UNCHANGED <<variant, df_raw, df, df_transformed, db, conn, err, runs, db_before>>

\* load_to_csv, line 73: to_csv raises OSError; the file was not opened, or
\* was opened (truncated) and not written.
Banks_load_to_csv_fail ==
    /\ pc = "b_load_csv"
    /\ csv' \in {csv, [exists |-> TRUE, header |-> <<>>, lines |-> <<>>]}
    /\ Crash("OSError")
    /\ UNCHANGED <<variant, df_raw, df, df_transformed, log, db, conn, runs, db_before>>

\* lines 113-114
Banks_connect ==
    /\ pc = "b_connect"
    /\ conn' = "open"
    /\ db_before' = db
    /\ log' = Logged("SQL Connection initiated", "b_load_db")
    /\ pc' = "b_load_db"
    /\ UNCHANGED <<variant, df_raw, df, df_transformed, csv, db, err, runs>>

\* line 113: sqlite3.connect raises.
Banks_connect_fail ==
    /\ pc = "b_connect"
    /\ Crash("sqlite3.OperationalError")
    /\ UNCHANGED <<variant, df_raw, df, df_transformed, log, csv, db, conn, runs, db_before>>

\* load_to_db, lines 81-82
Banks_load_to_db ==
    /\ pc = "b_load_db"
    /\ db' = to_sql_replace(db, df_transformed)
    /\ log' = Logged("Data loaded to Database as a table, Executing queries", "b_query1")
    /\ pc' = "b_query1"
    /\ UNCHANGED <<variant, df_raw, df, df_transformed, csv, conn, err, runs, db_before>>

\* Faulty variant of Banks_load_to_db_fail: the failed load removes the CSV file.
Banks_load_to_db_fail_rollback ==
    /\ pc = "b_load_db"
    /\ db' \in {db, NoTable}
    /\ csv' = NoFile
    /\ Crash("sqlite3.OperationalError")
    /\ UNCHANGED <<variant, df_raw, df, df_transformed, log, conn, runs, db_before>>

\* load_to_db, line 81: to_sql raises, before or after the old table is dropped.
Banks_load_to_db_fail ==
    /\ pc = "b_load_db"
    /\ db' \in {db, NoTable}
    /\ Crash("sqlite3.OperationalError")
    /\ UNCHANGED <<variant, df_raw, df, df_transformed, log, csv, conn, runs, db_before>>

\* run_query, lines 89-92 (the calls of lines 118-120); the result is printed.
Banks_run_query ==
    /\ pc \in {"b_query1", "b_query2", "b_query3"}
    /\ pc' = CASE pc = "b_query1" -> "b_query2"
               [] pc = "b_query2" -> "b_query3"
               [] pc = "b_query3" -> "b_close"
    /\ log' = Logged("Process Complete", pc')
    /\ UNCHANGED <<variant, df_raw, df, df_transformed, csv, db, conn, err, runs, db_before>>

\* run_query, line 90: read_sql raises.
Banks_run_query_fail ==
    /\ pc \in {"b_query1", "b_query2", "b_query3"}
    /\ Crash("DatabaseError")
    /\ UNCHANGED <<variant, df_raw, df, df_transformed, log, csv, db, conn, runs, db_before>>

\* lines 122-123
Banks_close ==
    /\ pc = "b_close"
    /\ conn' = "closed"
    /\ log' = Logged("Server Connection closed", "b_done")
    /\ pc' = "b_done"
    /\ UNCHANGED <<variant, df_raw, df, df_transformed, csv, db, err, runs, db_before>>

BanksNext ==
    \/ Banks_start
    \/ Banks_extract_fail
    \/ Banks_extract_read
    \/ Banks_project
    \/ Banks_dropna
    \/ Banks_to_numeric
    \/ Banks_coerce
    \/ Banks_transform_fail
    \/ Banks_transform
    \/ Banks_load_to_csv
    \/ Banks_load_to_csv_fail
    \/ Banks_connect
    \/ Banks_connect_fail
    \/ Banks_load_to_db
    \/ Banks_load_to_db_fail
    \/ Banks_run_query
    \/ Banks_run_query_fail
    \/ Banks_close

(***************************************************************************)
(* etl_project_gdp.py                                                      *)
(***************************************************************************)
\* main, line 164
Gdp_start ==
    /\ pc = "g_start"
    /\ log' = Logged("ETL process started.", "g_extract")
    /\ pc' = "g_extract"
    /\ UNCHANGED <<variant, df_raw, df, df_transformed, csv, db, conn, err, runs, db_before>>

\* extract_data, line 39
Gdp_extract_start ==
    /\ pc = "g_extract"
    /\ log' = Logged("Starting data extraction...", "g_fetch")
    /\ pc' = "g_fetch"
    /\ UNCHANGED <<variant, df_raw, df, df_transformed, csv, db, conn, err, runs, db_before>>

\* extract_data, lines 40-55: requests.get raises, the status is not 200, or
\* no table has the caption.
Gdp_fetch_fail ==
    /\ pc = "g_fetch"
    /\ \E kind \in {"ConnectionError",
                    "Failed to fetch webpage.",
                    "Could not find the correct GDP table by caption."} : Raise(kind)
    /\ UNCHANGED <<variant, df_raw, df, df_transformed, log, csv, db, conn, runs, db_before>>

\* extract_data, lines 40-51: the table with the caption is found.
Gdp_find_table ==
    /\ pc = "g_fetch"
    /\ log' = Logged("Found the correct GDP table using caption.", "g_read_html")
    /\ pc' = "g_read_html"
    /\ UNCHANGED <<variant, df_raw, df, df_transformed, csv, db, conn, err, runs, db_before>>

\* extract_data, lines 52-53 (and line 168)
Gdp_read_html ==
    /\ pc = "g_read_html"
    /\ \E t \in RawTables : df_raw' = t
    /\ pc' = "g_transform"
    /\ UNCHANGED <<variant, df, df_transformed, log, csv, db, conn, err, runs, db_before>>

\* extract_data, line 52: read_html finds no table to parse.
Gdp_read_html_fail ==
    /\ pc = "g_read_html"
    /\ Raise("ValueError: No tables found")
    /\ UNCHANGED <<variant, df_raw, df, df_transformed, log, csv, db, conn, runs, db_before>>

\* transform_data, line 64
Gdp_transform_start ==
    /\ pc = "g_transform"
    /\ log' = Logged("Starting data transformation...", "g_project")
    /\ df' = df_raw
    /\ pc' = "g_project"
    /\ UNCHANGED <<variant, df_raw, df_transformed, csv, db, conn, err, runs, db_before>>

\* transform_data, lines 67-68
Gdp_project ==
    /\ pc = "g_project"
    /\ IF NCols(df) < 3
       THEN Raise("IndexError") /\ UNCHANGED df
       ELSE /\ df' = set_columns(iloc(df, <<1, 3>>), <<"Country", "GDP_USD_million">>)
            /\ pc' = "g_filter"
            /\ UNCHANGED err
    /\ UNCHANGED <<variant, df_raw, df_transformed, log, csv, db, conn, runs, db_before>>

\* transform_data, line 71
Gdp_filter ==
    /\ pc = "g_filter"
    /\ df' = FilterCountry(df)
    /\ pc' = "g_replace"
    /\ UNCHANGED <<variant, df_raw, df_transformed, log, csv, db, conn, err, runs, db_before>>

\* transform_data, lines 74-76
Gdp_replace ==
    /\ pc = "g_replace"
    /\ df' = set_column(df, "GDP_USD_million", replace_column(df, "GDP_USD_million"))
    /\ pc' = "g_to_numeric"
    /\ UNCHANGED <<variant, df_raw, df_transformed, log, csv, db, conn, err, runs, db_before>>

\* transform_data, line 79
Gdp_to_numeric ==
    /\ pc = "g_to_numeric"
    /\ LET n == set_column(df, "GDP_USD_million",
                             to_numeric_column(df, "GDP_USD_million", "coerce"))
       IN IF Raised(n, "GDP_USD_million")
          THEN Raise("ValueError: Unable to parse string") /\ UNCHANGED df
          ELSE df' = n /\ pc' = "g_dropna" /\ UNCHANGED err
    /\ UNCHANGED <<variant, df_raw, df_transformed, log, csv, db, conn, runs, db_before>>

\* transform_data, line 82
Gdp_dropna ==
    /\ pc = "g_dropna"
    /\ df' = dropna(df, "GDP_USD_million")
    /\ pc' = "g_derive"
    /\ UNCHANGED <<variant, df_raw, df_transformed, log, csv, db, conn, err, runs, db_before>>

\* transform_data, lines 85-91 (and line 169); the sample printed with the
\* message is left out of the log line.
Gdp_derive ==
    /\ pc = "g_derive"
    /\ LET m == column(df, "GDP_USD_million")
           b == add_column(df, "GDP_USD_billion", [n \in 1..Len(m) |-> ToBillion(m[n])])
           r == select(b, <<"Country", "GDP_USD_billion">>)
       IN df' = r /\ df_transformed' = r
    /\ log' = Logged("Transformation complete. Sample data:", "g_load_csv")
    /\ pc' = "g_load_csv"
    /\ UNCHANGED <<variant, df_raw, csv, db, conn, err, runs, db_before>>

\* load_to_csv, line 102
Gdp_load_to_csv_start ==
    /\ pc = "g_load_csv"
    /\ log' = Logged("Saving data to CSV file: Countries_by_GDP.csv", "g_to_csv")
    /\ pc' = "g_to_csv"
    /\ UNCHANGED <<variant, df_raw, df, df_transformed, csv, db, conn, err, runs, db_before>>

\* load_to_csv, line 103
Gdp_to_csv ==
    /\ pc = "g_to_csv"
    /\ csv' = to_csv(df_transformed)
    /\ pc' = "g_load_db"
    /\ UNCHANGED <<variant, df_raw, df, df_transformed, log, db, conn, err, runs, db_before>>

\* load_to_csv, line 103: to_csv raises OSError; the file was not opened, or
\* was opened (truncated) and not written.
Gdp_to_csv_fail ==
    /\ pc = "g_to_csv"
    /\ csv' \in {csv, [exists |-> TRUE, header |-> <<>>, lines |-> <<>>]}
    /\ Raise("OSError")
    /\ UNCHANGED <<variant, df_raw, df, df_transformed, log, db, conn, runs, db_before>>

\* load_to_database, line 116
Gdp_load_to_database_start ==
    /\ pc = "g_load_db"
    /\ log' = Logged("Saving data to database: World_Economies.db", "g_connect")
    /\ pc' = "g_connect"
    /\ UNCHANGED <<variant, df_raw, df, df_transformed, csv, db, conn, err, runs, db_before>>

\* load_to_database, lines 117-118
Gdp_connect ==
    /\ pc = "g_connect"
    /\ conn' = "open"
    /\ db_before' = db
    /\ pc' = "g_drop"
    /\ UNCHANGED <<variant, df_raw, df, df_transformed, log, csv, db, err, runs>>

\* load_to_database, line 117: sqlite3.connect raises.
Gdp_connect_fail ==
    /\ pc = "g_connect"
    /\ Raise("sqlite3.OperationalError")
    /\ UNCHANGED <<variant, df_raw, df, df_transformed, log, csv, db, conn, runs, db_before>>

\* load_to_database, line 121
Gdp_drop ==
    /\ pc = "g_drop"
    /\ db' = drop_table(db)
    /\ pc' = "g_create"
    /\ UNCHANGED <<variant, df_raw, df, df_transformed, log, csv, conn, err, runs, db_before>>

\* load_to_database, lines 122-127: CREATE TABLE raises when the table exists.
Gdp_create ==
    /\ pc = "g_create"
    /\ IF db.exists
       THEN Raise("sqlite3.OperationalError") /\ UNCHANGED db
       ELSE db' = create_table(db) /\ pc' = "g_to_sql" /\ UNCHANGED err
    /\ UNCHANGED <<variant, df_raw, df, df_transformed, log, csv, conn, runs, db_before>>

\* load_to_database, lines 121-131: a statement raises (database locked,
\* disk full); the statement changes nothing.
Gdp_sql_fail ==
    /\ pc \in {"g_drop", "g_create", "g_to_sql"}
    /\ Raise("sqlite3.OperationalError")
    /\ UNCHANGED <<variant, df_raw, df, df_transformed, log, csv, db, conn, runs, db_before>>

\* load_to_database, lines 130-133 (and line 171)
Gdp_to_sql ==
    /\ pc = "g_to_sql"
    /\ db' = to_sql_append(db, df_transformed)
    /\ log' = Logged("Data loaded into database.", "g_query")
    /\ pc' = "g_query"
    /\ UNCHANGED <<variant, df_raw, df, df_transformed, csv, conn, err, runs, db_before>>

\* query_database, line 142
Gdp_query_start ==
    /\ pc = "g_query"
    /\ log' = Logged("Running query for countries with GDP > 100 billion USD...", "g_execute")
    /\ pc' = "g_execute"
    /\ UNCHANGED <<variant, df_raw, df, df_transformed, csv, db, conn, err, runs, db_before>>

\* query_database, lines 143-150
Gdp_execute ==
    /\ pc = "g_execute"
    /\ log' = Append(log, Entry("Query returned", "countries", Len(QueryOver100(db)),
                                Progress("g_close")))
    /\ pc' = "g_close"
    /\ UNCHANGED <<variant, df_raw, df, df_transformed, csv, db, conn, err, runs, db_before>>

\* query_database, lines 143-147: execute raises.
Gdp_execute_fail ==
    /\ pc = "g_execute"
    /\ Raise("sqlite3.OperationalError")
    /\ UNCHANGED <<variant, df_raw, df, df_transformed, log, csv, db, conn, runs, db_before>>

\* Faulty variant of Gdp_close: line 173 left out.
Gdp_close_skipped ==
    /\ pc = "g_close"
    /\ pc' = "g_log_done"
    /\ UNCHANGED <<variant, df_raw, df, df_transformed, log, csv, db, conn, err, runs, db_before>>

\* main, line 173
Gdp_close ==
    /\ pc = "g_close"
    /\ conn' = "closed"
    /\ pc' = "g_log_done"
    /\ UNCHANGED <<variant, df_raw, df, df_transformed, log, csv, db, err, runs, db_before>>

\* main, line 174
Gdp_log_done ==
    /\ pc = "g_log_done"
    /\ log' = Logged("ETL process completed successfully.", "g_done")
    /\ pc' = "g_done"
    /\ UNCHANGED <<variant, df_raw, df, df_transformed, csv, db, conn, err, runs, db_before>>

\* Faulty variant of Gdp_except: the exception is logged and main starts over.
Gdp_except_retry ==
    /\ pc = "g_except"
    /\ log' = Append(log, Entry("ETL process failed: ", err.kind, 0, err.at))
    /\ pc' = "g_extract"
    /\ UNCHANGED <<variant, df_raw, df, df_transformed, csv, db, conn, err, runs, db_before>>

\* Faulty variant of Gdp_except: "except Exception: pass".
Gdp_except_silent ==
    /\ pc = "g_except"
    /\ pc' = "g_failed"
    /\ UNCHANGED <<variant, df_raw, df, df_transformed, log, csv, db, conn, err, runs, db_before>>

\* main, lines 175-176: the exception is logged and main returns.
Gdp_except ==
    /\ pc = "g_except"
    /\ log' = Append(log, Entry("ETL process failed: ", err.kind, 0, err.at))
    /\ pc' = "g_failed"
    /\ UNCHANGED <<variant, df_raw, df, df_transformed, csv, db, conn, err, runs, db_before>>

GdpNext ==
    \/ Gdp_start
    \/ Gdp_extract_start
    \/ Gdp_fetch_fail
    \/ Gdp_find_table
    \/ Gdp_read_html
    \/ Gdp_read_html_fail
    \/ Gdp_transform_start
    \/ Gdp_project
    \/ Gdp_filter
    \/ Gdp_replace
    \/ Gdp_to_numeric
    \/ Gdp_dropna
    \/ Gdp_derive
    \/ Gdp_load_to_csv_start
    \/ Gdp_to_csv
    \/ Gdp_to_csv_fail
    \/ Gdp_load_to_database_start
    \/ Gdp_connect
    \/ Gdp_connect_fail
    \/ Gdp_drop
    \/ Gdp_create
    \/ Gdp_sql_fail
    \/ Gdp_to_sql
    \/ Gdp_query_start
    \/ Gdp_execute
    \/ Gdp_execute_fail
    \/ Gdp_close
    \/ Gdp_log_done
    \/ Gdp_except

(***************************************************************************)
(* One run of either script                                                *)
(***************************************************************************)
Next == BanksNext \/ GdpNext

Spec == Init /\ [][Next]_vars

(***************************************************************************)
(* transform_data called on its own (SpecTransform)                        *)
(***************************************************************************)
InitTransform ==
    /\ variant = "gdp"
    /\ pc = "g_transform"
    /\ df_raw \in FnTables
    /\ df = NoFrame
    /\ df_transformed = NoFrame
    /\ log = <<>>
    /\ csv = NoFile
    /\ db = NoTable
    /\ conn = "none"
    /\ err = NoErr
    /\ runs = 1
    /\ db_before = NoTable

NextTransform ==
    \/ Gdp_transform_start
    \/ Gdp_project
    \/ Gdp_filter
    \/ Gdp_replace
    \/ Gdp_to_numeric
    \/ Gdp_dropna
    \/ Gdp_derive

SpecTransform == InitTransform /\ [][NextTransform]_vars

(***************************************************************************)
(* Successive relational loads into one database file (SpecLoad): each run *)
(* is taken up where its load stage starts, the earlier stages having      *)
(* produced a frame and written it to the CSV file.                        *)
(***************************************************************************)
LoadCols(v) ==
    IF v = "gdp" THEN <<"Country", "GDP_USD_billion">>
    ELSE <<"Name", "MC_USD_Billion", "MC_GBP_Billion", "MC_EUR_Billion", "MC_INR_Billion">>

\* Rows the transform stage produces.
LoadRows(v) ==
    IF v = "gdp"
    THEN {<<Str(T_BankA), Num(1)>>, <<Str(T_BankB), Num(23457)>>}
    ELSE {<<Str(T_BankA), Num(1230), Num(984), Num(1144), Num(102028)>>,
          <<Str(T_BankB), NaN, NaN, NaN, NaN>>}

LoadFrames(v) == {[cols |-> LoadCols(v), rows |-> r] : r \in SeqsUpTo(LoadRows(v), MaxRows)}

LoadEntry(v) == IF v = "gdp" THEN "g_load_db" ELSE "b_connect"

InitLoad ==
    /\ variant \in {"banks", "gdp"}
    /\ pc = LoadEntry(variant)
    /\ df_raw = NoFrame
    /\ df = NoFrame
    /\ df_transformed \in LoadFrames(variant)
    /\ log = <<>>
    /\ csv = to_csv(df_transformed)
    /\ db = NoTable
    /\ conn = "none"
    /\ err = NoErr
    /\ runs = 1
    /\ db_before = NoTable

\* The script is run again after the earlier run ended (after its load, or
\* after a failure) and reaches its load stage with that run's frame.
NextRun ==
    /\ pc \in {"b_query1", "b_crashed", "g_query", "g_failed"}
    /\ runs < MaxRuns
    /\ runs' = runs + 1
    /\ \E f \in LoadFrames(variant) : df_transformed' = f /\ csv' = to_csv(f)
    /\ pc' = LoadEntry(variant)
    /\ conn' = "none"
    /\ err' = NoErr
    /\ UNCHANGED <<variant, df_raw, df, log, db, db_before>>

NextLoad ==
    \/ Banks_connect
    \/ Banks_connect_fail
    \/ Banks_load_to_db
    \/ Banks_load_to_db_fail
    \/ Gdp_load_to_database_start
    \/ Gdp_connect
    \/ Gdp_connect_fail
    \/ Gdp_drop
    \/ Gdp_create
    \/ Gdp_sql_fail
    \/ Gdp_to_sql
    \/ Gdp_except
    \/ NextRun

SpecLoad == InitLoad /\ [][NextLoad]_vars

(***************************************************************************)
(* Properties                                                              *)
(***************************************************************************)
LogHas(msg) == \E i \in 1..Len(log) : log[i].msg = msg

CountLog(entries, msgs) == Cardinality({i \in 1..Len(entries) : entries[i].msg \in msgs})

Failed == Stage(pc) = "Failed"

\* A run that ended in failure: the banks script after the uncaught
\* exception, main() after its except clause.
EndedInFailure == pc \in {"b_crashed", "g_failed"}

\* C1: whenever a run of either script has ended in failure, the log holds an
\* entry that describes the error that was raised.
C1_FatalErrorLogged ==
    EndedInFailure => \E i \in 1..Len(log) : log[i].detail = err.kind

StageAfter(st) ==
    CASE st = "Idle" -> "Extracting"
      [] st = "Extracting" -> "Transforming"
      [] st = "Transforming" -> "LoadingCsv"
      [] st = "LoadingCsv" -> "LoadingDb"
      [] st = "LoadingDb" -> "Querying"
      [] st = "Querying" -> "Done"
      [] OTHER -> st

\* C2: every step keeps the stage, moves to the next stage of the fixed order
\* or moves to Failed; Done and Failed are never left and a failed run changes
\* no sink any more; after a failure in Extract or Transform neither the CSV
\* file nor the database table has been written.
C2_StageOrder ==
    [][/\ Stage(pc') \in {Stage(pc), StageAfter(Stage(pc)), "Failed"}
       /\ Stage(pc) \in {"Done", "Failed"} => Stage(pc') = Stage(pc)
       /\ Stage(pc) = "Failed" => csv' = csv /\ db' = db /\ conn' = conn
       /\ Stage(pc') \in {"Idle", "Extracting", "Transforming"}
             => csv' = NoFile /\ db' = NoTable
       /\ (Stage(pc') = "Failed" /\ err'.stage \in {"Extracting", "Transforming"})
             => csv' = NoFile /\ db' = NoTable]_vars

\* A run that failed in Transform (a table with too few columns) and wrote
\* to no sink.
C2_Witness ==
    /\ pc = "g_failed"
    /\ err.stage = "Transforming"
    /\ csv = NoFile
    /\ db = NoTable

\* C3: no missing value reaches a sink: every numeric field of the CSV file
\* is a number text and every numeric value of the database table is a float;
\* and the scenario rows of spec section 8 sink exactly the row of Bank A with
\* 12.3.
C3_NoMissingReachesSink ==
    /\ \A i \in 1..Len(csv.lines) : \A j \in 2..Len(csv.lines[i]) :
          IsNumeric(csv.lines[i][j])
    /\ \A i \in 1..Len(db.rows) : \A j \in 2..Len(db.rows[i]) : IsNum(db.rows[i][j])
    /\ (variant = "banks" /\ df_raw.rows = ScenarioRows /\ db.exists)
          => /\ Len(db.rows) = 1
             /\ db.rows[1][1] = Str(T_BankA)
             /\ db.rows[1][2] = Num(1230)
    /\ (variant = "banks" /\ df_raw.rows = ScenarioRows /\ csv.lines # <<>>)
          => /\ Len(csv.lines) = 1
             /\ csv.lines[1][1] = T_BankA
             /\ csv.lines[1][2] = <<"1", "2", ".", "3">>

\* The CSV stage of the run has completed.
CsvStageDone ==
    \/ Stage(pc) \in {"LoadingDb", "Querying", "Done"}
    \/ Failed /\ err.stage \in {"LoadingDb", "Querying"}

\* C4: once the CSV stage has completed the file holds exactly the transformed
\* table, whatever happens later in the run (a failed load or query included),
\* and the database is touched only after the CSV stage has completed.
C4_CsvIntact ==
    /\ CsvStageDone =>
          /\ csv.exists
          /\ csv.header = df_transformed.cols
          /\ Len(csv.lines) = Len(df_transformed.rows)
          /\ csv = to_csv(df_transformed)
    /\ (conn # "none" \/ db # NoTable) => CsvStageDone

\* The database load failed after a CSV file with rows was written.
C4_Witness ==
    /\ Failed
    /\ err.stage = "LoadingDb"
    /\ conn = "open"
    /\ csv.exists
    /\ Len(csv.lines) > 0

\* The relational load of the run has completed.
LoadDone == pc \in {"b_query1", "g_query"}

\* C5: after every completed relational load the table holds exactly the rows
\* of the frame just loaded, whatever an earlier load left in it.
C5_ReplaceOnLoad ==
    LoadDone =>
        /\ db.exists
        /\ db.cols = df_transformed.cols
        /\ Len(db.rows) = Len(df_transformed.rows)
        /\ \A i \in 1..Len(db.rows) : \A j \in 1..Len(db.rows[i]) :
              db.rows[i][j] = SqlValue(df_transformed.rows[i][j])

\* A second load of one row into a table the first load left with two rows.
C5_Witness ==
    /\ variant = "gdp"
    /\ LoadDone
    /\ runs = 2
    /\ Len(db_before.rows) = 2
    /\ Len(db.rows) = 1
    /\ db.rows[1] # db_before.rows[1]

\* str.strip() of a text: the blanks around it removed.
RECURSIVE Trim(_)
Trim(chars) ==
    IF chars = <<>> THEN chars
    ELSE IF Head(chars) = " " THEN Trim(Tail(chars))
    ELSE IF chars[Len(chars)] = " " THEN Trim(SubSeq(chars, 1, Len(chars) - 1))
    ELSE chars

\* The cleaned numeric cell of a raw row is missing.
CleanedMissing(row) == IsNaN(to_numeric(StripNoise(row[3]), "coerce"))

\* transform_data returned frame `out` for frame `in`: `out` holds, in order,
\* exactly the rows of `in` that the mask `drop` does not drop, each with its
\* country and its value in billions.
FilteredBy(in, out, drop) ==
    LET kept == Take(in.rows, [n \in 1..Len(in.rows) |-> ~drop[n]])
    IN /\ Len(out.rows) = Len(kept)
       /\ \A j \in 1..Len(kept) :
             /\ out.rows[j][1] = kept[j][1]
             /\ out.rows[j][2] = ToBillion(to_numeric(StripNoise(kept[j][3]), "coerce"))

\* C6 as stated: the rows dropped are exactly those whose country, lower-cased
\* and trimmed, is in the exclusion set, or whose cleaned number is missing.
C6_DropsTrimmedLowercased ==
    pc = "g_load_csv" =>
        FilteredBy(df_raw, df_transformed,
                   [n \in 1..Len(df_raw.rows) |->
                       \/ Trim(Lower(df_raw.rows[n][1].s)) \in ExclusionSet
                       \/ CleanedMissing(df_raw.rows[n])])

\* C6 amended: the rows dropped are exactly those whose country, lower-cased
\* (and not trimmed), is in the exclusion set, or whose cleaned number is
\* missing; the other rows are kept in their order.
C6_DropsLowercased ==
    pc = "g_load_csv" =>
        FilteredBy(df_raw, df_transformed,
                   [n \in 1..Len(df_raw.rows) |->
                       \/ Lower(df_raw.rows[n][1].s) \in ExclusionSet
                       \/ CleanedMissing(df_raw.rows[n])])

\* A "World" row is dropped and a " World " row with a number is kept.
C6_Witness ==
    /\ pc = "g_load_csv"
    /\ Len(df_raw.rows) = 2
    /\ df_raw.rows[1][1] = Str(T_World)
    /\ ~CleanedMissing(df_raw.rows[1])
    /\ df_raw.rows[2][1] = Str(T_PaddedWorld)
    /\ Len(df_transformed.rows) = 1
    /\ df_transformed.rows[1][1] = Str(T_PaddedWorld)

\* The numeric column of the working frame has been through to_numeric.
NumericColumnCleaned ==
    \/ pc \in {"g_dropna", "g_derive"}
    \/ pc \in {"b_coerce", "b_transform"}

\* C7: numeric cleaning never raises, and once the numeric column has been
\* cleaned each of its cells is a float or missing, never a text; the cell
\* "234,567[a]" of the GDP table becomes the float 234567.0.
C7_CleanedIsFloatOrMissing ==
    /\ err.kind # "ValueError: Unable to parse string"
    /\ NumericColumnCleaned =>
          \A i \in 1..Len(df.rows) : IsNum(df.rows[i][2]) \/ IsNaN(df.rows[i][2])
    /\ (pc = "g_dropna" /\ Len(df_raw.rows) = 1 /\ Len(df.rows) = 1
           /\ df_raw.rows[1][3] = Str(<<"2", "3", "4", ",", "5", "6", "7", "[", "a", "]">>))
          => df.rows[1][2] = Num(23456700)

\* A cleaned GDP column holding a parsed float and a missing value that came
\* from texts.
C7_Witness ==
    /\ pc = "g_dropna"
    /\ Len(df.rows) = 2
    /\ IsNum(df.rows[1][2])
    /\ IsNaN(df.rows[2][2])
    /\ IsStr(df_raw.rows[1][3])
    /\ IsStr(df_raw.rows[2][3])

QueryMessages == {"Process Complete", "Query returned"}

FinalMessages == {"Server Connection closed", "ETL process completed successfully."}

QueriesOf(v) == IF v = "banks" THEN 3 ELSE 1

\* C8: the connection changes only from none to open, with the CSV file
\* written, and from open to closed, after the last query and before the final
\* log entry; a run that is Done has closed it; the table changes and queries
\* run only while it is open.
C8_ConnectionLifecycle ==
    [][/\ conn' # conn =>
             \/ conn = "none" /\ conn' = "open" /\ csv.exists /\ csv = to_csv(df_transformed)
             \/ /\ conn = "open" /\ conn' = "closed"
                /\ CountLog(log, QueryMessages) = QueriesOf(variant)
                /\ CountLog(log, FinalMessages) = 0
       /\ Stage(pc') = "Done" => conn' = "closed"
       /\ CountLog(log', FinalMessages) > 0 => conn' = "closed"
       /\ (db' # db \/ CountLog(log', QueryMessages) # CountLog(log, QueryMessages))
             => conn = "open" /\ conn' = "open"]_vars

\* A run of the banks script that is Done with its connection closed.
C8_Witness ==
    /\ pc = "b_done"
    /\ conn = "closed"
    /\ CountLog(log, QueryMessages) = 3

\* The stage (by its rank) a log message is about.
Describes(msg) ==
    CASE msg \in {"Data extraction complete. Initiating Transformation process",
                  "Starting data extraction...",
                  "Found the correct GDP table using caption."} -> 1
      [] msg \in {"Data transformation complete. Initiating Loading process",
                  "Starting data transformation...",
                  "Transformation complete. Sample data:"} -> 2
      [] msg \in {"Data saved to CSV file",
                  "Saving data to CSV file: Countries_by_GDP.csv"} -> 3
      [] msg \in {"SQL Connection initiated",
                  "Data loaded to Database as a table, Executing queries",
                  "Saving data to database: World_Economies.db",
                  "Data loaded into database."} -> 4
      [] msg \in {"Process Complete",
                  "Running query for countries with GDP > 100 billion USD...",
                  "Query returned"} -> 5
      [] OTHER -> 0

\* C9: the entries of the log are in the order of time, and whenever a run is
\* in a stage, every stage completed before it has an entry about that stage
\* that was written after the stage's work was complete.
C9_CompletionLogged ==
    /\ \A i \in 1..Len(log) : \A j \in i..Len(log) : log[i].at <= log[j].at
    /\ ~Failed =>
          \A k \in 1..(StageRank(Stage(pc)) - 1) :
              \E i \in 1..Len(log) : Describes(log[i].msg) = k /\ log[i].at >= k

TerminalMessages == {"ETL process completed successfully.", "ETL process failed: "}

\* C10: a run of main() that has ended has exactly one terminal entry, the
\* last of the log, and a run that has not ended has none; the success entry
\* is there only when every stage and the close have completed; a raised
\* exception is always in the hands of the except clause.
C10_OneTerminalEntry ==
    variant = "gdp" =>
        /\ pc \in {"g_done", "g_failed"} =>
              /\ CountLog(log, TerminalMessages) = 1
              /\ log[Len(log)].msg \in TerminalMessages
        /\ pc \notin {"g_done", "g_failed"} => CountLog(log, TerminalMessages) = 0
        /\ pc = "g_failed" => log[Len(log)].detail = err.kind
        /\ LogHas("ETL process completed successfully.") =>
              /\ err = NoErr
              /\ NCols(df_raw) >= 3
              /\ df_transformed.cols = <<"Country", "GDP_USD_billion">>
              /\ csv = to_csv(df_transformed)
              /\ db.exists /\ Len(db.rows) = Len(df_transformed.rows)
              /\ LogHas("Query returned")
              /\ conn = "closed"
        /\ err # NoErr => pc \in {"g_except", "g_failed"}

\* A run of main() that completed with rows in the table.
C10_Witness ==
    /\ pc = "g_done"
    /\ Len(db.rows) = 2
    /\ log[Len(log)].msg = "ETL process completed successfully."

====
